---- MODULE Spec2Model ----
(***************************************************************************)
(* Model of pokemon-coloring-page: the interactive session of             *)
(* PokemonColoringPageCLI (app.py) and the sheet pipeline of utils.py.     *)
(* Text is a sequence of one-character strings; millimetre values are      *)
(* held in tenths of a millimetre; pixels are integers.                    *)
(***************************************************************************)
EXTENDS Integers, Sequences, FiniteSets, TLC

VARIABLES
    page,                   \* PAGE_WIDTH_MM .. CROP of the session (self.*)
    initial,                \* the INITIAL_* values stored by run()
    FILTER,                 \* self.FILTER: None or the filter text as typed
    pokedex,                \* self.pokedex: dict id -> name
    selected_pokemon,       \* self.selected_pokemon: list of ids
    user_selected_pokemon,  \* self.user_selected_pokemon
    MESSAGES,               \* self.MESSAGES
    pc,                     \* fill, prompt, prewarm, generate, compose, returned, crashed, quit
    call,                   \* arguments of the running generate_pokemon_coloring_page call
    include_list,           \* its private copy of include_list
    exclude_list,           \* its private copy of exclude_list
    cell,                   \* number of cells already filled (i * columns + j)
    output_image,           \* what was drawn: size, pasted cells, separator lines
    attempts,               \* iterations of the retry loop made for the current cell
    attempt_id,             \* its local pokemon_id: the id of the latest iteration, 0 before the first
    memory,                 \* joblib Memory: stored results of get_image_by_id / get_pokemon_print_name
    fetched,                \* per id, the requests get_image_by_id sent to source locations
    pending,                \* pre-warm tasks not yet run
    resized                 \* an img_resize call on its own: its arguments and what became of it

session == <<page, initial, FILTER, pokedex, selected_pokemon, user_selected_pokemon, MESSAGES>>
render  == <<call, include_list, exclude_list, cell, output_image, attempts, attempt_id,
             resized>>
vars    == <<page, initial, FILTER, pokedex, selected_pokemon, user_selected_pokemon, MESSAGES,
             pc, call, include_list, exclude_list, cell, output_image, attempts, attempt_id,
             memory, fetched, pending, resized>>

----------------------------------------------------------------------------
(* Sequences and text *)

Range(s) == {s[k] : k \in 1..Len(s)}

Min(a, b) == IF a < b THEN a ELSE b

Max(a, b) == IF a > b THEN a ELSE b

\* list[:n] of Python, n of any sign.
Slice(s, n) ==
    IF n >= 0 THEN SubSeq(s, 1, Min(n, Len(s)))
    ELSE SubSeq(s, 1, Max(0, Len(s) + n))

\* list.remove(x): drops the first occurrence of x.
RECURSIVE Remove(_, _)
Remove(s, x) ==
    IF s = <<>> THEN <<>>
    ELSE IF Head(s) = x THEN Tail(s)
    ELSE <<Head(s)>> \o Remove(Tail(s), x)

RECURSIVE Join(_)
Join(s) == IF s = <<>> THEN "" ELSE Head(s) \o Join(Tail(s))

UpperLetters == <<"A","B","C","D","E","F","G","H","I","J","K","L","M",
                  "N","O","P","Q","R","S","T","U","V","W","X","Y","Z">>

LowerLetters == <<"a","b","c","d","e","f","g","h","i","j","k","l","m",
                  "n","o","p","q","r","s","t","u","v","w","x","y","z">>

LowerChar(c) ==
    IF \E k \in 1..26 : UpperLetters[k] = c
    THEN LowerLetters[CHOOSE k \in 1..26 : UpperLetters[k] = c]
    ELSE c

\* A mutation of Lower: the text is left as typed.
LowerNot(s) == s

\* str.lower()
Lower(s) == [k \in 1..Len(s) |-> LowerChar(s[k])]

\* str.split(" "): one field per single blank.
RECURSIVE Split(_, _)
Split(s, acc) ==
    IF s = <<>> THEN <<acc>>
    ELSE IF Head(s) = " " THEN <<acc>> \o Split(Tail(s), <<>>)
    ELSE Split(Tail(s), Append(acc, Head(s)))

DigitChars == <<"0","1","2","3","4","5","6","7","8","9">>

IsDigit(c) == \E k \in 1..10 : DigitChars[k] = c

DigitVal(c) == (CHOOSE k \in 1..10 : DigitChars[k] = c) - 1

AllDigits(s) == s # <<>> /\ \A k \in 1..Len(s) : IsDigit(s[k])

RECURSIVE Digits2Nat(_, _)
Digits2Nat(s, acc) ==
    IF s = <<>> THEN acc ELSE Digits2Nat(Tail(s), 10 * acc + DigitVal(Head(s)))

Signed(s) == s # <<>> /\ Head(s) \in {"-", "+"}

Unsigned(s) == IF Signed(s) THEN Tail(s) ELSE s

Sign(s) == IF s # <<>> /\ Head(s) = "-" THEN -1 ELSE 1

\* int(s): an optional sign and decimal digits; anything else raises ValueError.
IntParses(s) == AllDigits(Unsigned(s))

IntValue(s) == Sign(s) * Digits2Nat(Unsigned(s), 0)

DotAt(s) == IF \E k \in 1..Len(s) : s[k] = "." THEN CHOOSE k \in 1..Len(s) : s[k] = "." ELSE 0

\* float(s) for decimal literals with at most one fractional digit: an optional
\* sign, digits, and optionally a point with digits on at least one side.
FloatParses(s) ==
    LET u == Unsigned(s)
        d == DotAt(u)
        whole == IF d = 0 THEN u ELSE SubSeq(u, 1, d - 1)
        frac  == IF d = 0 THEN <<>> ELSE SubSeq(u, d + 1, Len(u))
    IN  /\ whole \o frac # <<>>
        /\ \A k \in 1..Len(whole) : IsDigit(whole[k])
        /\ \A k \in 1..Len(frac) : IsDigit(frac[k])
        /\ Len(frac) <= 1

\* The value of float(s), in tenths.
FloatValue(s) ==
    LET u == Unsigned(s)
        d == DotAt(u)
        whole == IF d = 0 THEN u ELSE SubSeq(u, 1, d - 1)
        frac  == IF d = 0 THEN <<>> ELSE SubSeq(u, d + 1, Len(u))
    IN  Sign(s) * (10 * Digits2Nat(whole, 0) + Digits2Nat(frac, 0))

\* Python's None where a text is expected: None and "" are both falsy, and the
\* code never stores "" in such a place.
None == <<>>

----------------------------------------------------------------------------
(* Entity catalog (utils.py) *)

\* The type index the remote service answers with: type names in the order
\* received, and the members of each type.
TypeNames == <<"ice", "poison", "psychic", "shadow">>

\* get_types(): type name -> list of {name, id}, everything in lowercase.
get_types ==
    [t \in Range(TypeNames) |->
        CASE t = "ice"     -> << [name |-> "jynx", id |-> 124] >>
          [] t = "poison"  -> << [name |-> "muk", id |-> 89] >>
          [] t = "psychic" -> << [name |-> "jynx", id |-> 124], [name |-> "mew", id |-> 151] >>
          [] t = "shadow"  -> << >>]

TypeHas(t, id) == \E k \in 1..Len(get_types[t]) : get_types[t][k].id = id

\* get_pokedex_types(): id -> {name, types}, types in the order of the index.
get_pokedex_types ==
    LET ids == UNION {{get_types[t][k].id : k \in 1..Len(get_types[t])} : t \in Range(TypeNames)}
        first(id) == CHOOSE k \in 1..Len(TypeNames) :
                        /\ TypeHas(TypeNames[k], id)
                        /\ \A m \in 1..(k - 1) : ~TypeHas(TypeNames[m], id)
        entry(id) == LET l == get_types[TypeNames[first(id)]]
                     IN  l[CHOOSE k \in 1..Len(l) : l[k].id = id]
    IN  [id \in ids |->
            [name  |-> entry(id).name,
             types |-> SelectSeq(TypeNames, LAMBDA t : TypeHas(t, id))]]

\* A mutation of get_pokedex: the filter is ignored.
get_pokedex_unfiltered(type_filter) ==
    [k \in DOMAIN get_pokedex_types |-> get_pokedex_types[k].name]

\* get_pokedex(type_filter): id -> name, scoped to a known type, else everything.
get_pokedex(type_filter) ==
    IF type_filter # None /\ Join(Lower(type_filter)) \in DOMAIN get_types
    THEN LET t == Join(Lower(type_filter))
             ids == {k \in DOMAIN get_pokedex_types : t \in Range(get_pokedex_types[k].types)}
         IN  [k \in ids |-> get_pokedex_types[k].name]
    ELSE [k \in DOMAIN get_pokedex_types |-> get_pokedex_types[k].name]

Ids == DOMAIN get_pokedex(None)

\* pokemon_id2name(id): the name, or nothing (the empty set) for an unknown id.
pokemon_id2name(pokemon_id) ==
    IF pokemon_id \in DOMAIN get_pokedex(None) THEN {get_pokedex(None)[pokemon_id]} ELSE {}

\* _pokedex_names(): the reverse dict name -> id (the index has no name twice).
pokedex_names ==
    LET names == {get_pokedex(None)[k] : k \in Ids}
    IN  [nm \in names |-> CHOOSE k \in Ids : get_pokedex(None)[k] = nm]

\* pokemon_name2id(name): the id, or nothing for an unknown name.
pokemon_name2id(pokemon_name) ==
    LET nm == Join(Lower(pokemon_name))
    IN  IF nm \in DOMAIN pokedex_names THEN {pokedex_names[nm]} ELSE {}

\* pokemon_id2types(id): the type list, empty for an unknown id.
pokemon_id2types(pokemon_id) ==
    IF pokemon_id \in DOMAIN get_pokedex_types THEN get_pokedex_types[pokemon_id].types ELSE <<>>

----------------------------------------------------------------------------
(* Artwork resolver and line-art transform (utils.py) *)

\* int(a / b) for b > 0: the quotient cut towards zero.
TruncDiv(a, b) == IF a >= 0 THEN a \div b ELSE -((-a) \div b)

\* a // b of Python for b # 0: the quotient rounded down.
FloorDiv(a, b) == IF b > 0 THEN a \div b ELSE (-a) \div (-b)

\* The candidate source locations, in the order get_image_by_id tries them.
Locations == <<"official-artwork", "home", "sprite">>

\* The image a location serves for an id: mode, size and the bounding box
\* (left, upper, right, lower) of its non-white content as getbbox() gives it,
\* None for an image that is blank.
Artwork(location, pokemon_id) ==
    CASE location = "official-artwork" ->
            [mode |-> "RGBA", width |-> 475, height |-> 475,
             bbox |-> CASE pokemon_id = 89 -> <<40, 90, 440, 400>>
                        [] pokemon_id = 124 -> <<110, 10, 370, 470>>
                        [] OTHER -> <<30, 30, 450, 450>>]
      [] location = "home" ->
            [mode |-> "RGBA", width |-> 512, height |-> 512, bbox |-> <<20, 40, 500, 480>>]
      [] location = "sprite" ->
            IF pokemon_id = 124
            THEN [mode |-> "P", width |-> 96, height |-> 64, bbox |-> None]
            ELSE [mode |-> "P", width |-> 96, height |-> 96, bbox |-> <<24, 30, 72, 70>>]

\* What a run of get_image_by_id's body can come to: the first location k whose
\* answer opens as an image, after k requests, or None after all three failed.
\* No exception leaves the function.
FetchOutcomes ==
    {[result |-> Locations[k], requests |-> k] : k \in 1..Len(Locations)}
        \cup {[result |-> "None", requests |-> Len(Locations)]}

\* A mutation of Memoized: nothing is ever found in the store.
MemoizedNever(store, key) == FALSE

\* memory.cache: whether a result is stored under the key.
Memoized(store, key) == store[key] # "miss"

\* The values int(a * (num / den)) can take in double arithmetic, a, den > 0:
\* the exact quotient cut towards zero, or one nearer to zero when the exact
\* quotient is whole but num / den is not.
IntOfProduct(a, num, den) ==
    LET q == TruncDiv(a * num, den)
    IN  IF num % den # 0 /\ (a * num) % den = 0 /\ q # 0
        THEN {q, IF q > 0 THEN q - 1 ELSE q + 1}
        ELSE {q}

\* img_resize: the sizes (w, h) handed to image.resize.
img_resize(width, height, max_width, max_height) ==
    UNION { IF h > max_height
            THEN {<<w, max_height>> : w \in IntOfProduct(width, max_height, height)}
            ELSE {<<max_width, h>>}
          : h \in IntOfProduct(height, max_width, width) }

\* A mutation of CropSize: the crop and the padding are not skipped for an
\* empty bounding box.
CropSizeAlways(image, crop) ==
    IF crop
    THEN IF image.bbox # None
         THEN <<image.bbox[3] - image.bbox[1] + 2, image.bbox[4] - image.bbox[2] + 2>>
         ELSE <<image.width + 2, image.height + 2>>
    ELSE <<image.width, image.height>>

\* The size after the crop step: the bounding box with a border of 1, or the
\* image as it is when crop is off or getbbox() found nothing.
CropSize(image, crop) ==
    IF crop /\ image.bbox # None
    THEN <<image.bbox[3] - image.bbox[1] + 2, image.bbox[4] - image.bbox[2] + 2>>
    ELSE <<image.width, image.height>>

\* A mutation of ResultMode: the grayscale branch runs whatever color says.
ResultModeGray(mode, color) == "L"

\* The mode of the result: convert("L") unless color; alpha_composite, crop,
\* expand and resize keep the mode of the source.
ResultMode(mode, color) == IF color THEN mode ELSE "L"

\* create_coloring_image on a stored result: the images it can return, none
\* when it raises (None has no mode; resize rejects a size below 1).
create_coloring_image(stored, pokemon_id, max_width, max_height, crop, color) ==
    IF stored = "None" THEN {}
    ELSE LET image == Artwork(stored, pokemon_id)
             size == CropSize(image, crop)
         IN  { [pokemon_id |-> pokemon_id, width |-> s[1], height |-> s[2],
                mode |-> ResultMode(image.mode, color)]
               : s \in {t \in img_resize(size[1], size[2], max_width, max_height) :
                           t[1] >= 1 /\ t[2] >= 1} }

\* A mutation of Mm2Px: the nearest integer instead of the integer part.
Mm2PxRound(mm, dpi) == TruncDiv(2 * mm * dpi + 254, 2 * 254)

\* int(mm * dpi / 25.4), mm in tenths of a millimetre.
Mm2Px(mm, dpi) == TruncDiv(mm * dpi, 254)

----------------------------------------------------------------------------
(* Configuration (config.py) *)

DPI == 200

\* Default sheet settings, lengths in tenths of a millimetre.
Config ==
    [PAGE_WIDTH_MM |-> 2970, PAGE_HEIGHT_MM |-> 2100, OUTER_MARGIN_MM |-> 100,
     INNER_MARGIN_MM |-> 20, FONT_SIZE_MM |-> 25, ROWS |-> 2, COLUMNS |-> 3,
     COLOR |-> FALSE, CROP |-> TRUE]

\* Standard page sizes (width, height) in portrait orientation.
STANDARD_PAGE_SIZES_MM ==
    [nm \in {"A4", "A5", "Letter"} |->
        CASE nm = "A4"     -> <<2100, 2970>>
          [] nm = "A5"     -> <<1480, 2100>>
          [] nm = "Letter" -> <<2159, 2794>>]

----------------------------------------------------------------------------
(* The interactive session (app.py) *)

_n_pokemon == page.ROWS * page.COLUMNS

_add_message(message) == MESSAGES' = Append(MESSAGES, message)

AtPrompt == pc = "prompt"

\* _random_select_pokemon, one iteration of its while loop: a random id of the
\* current catalog, appended if it is not on the list yet.
RandomSelectPick ==
    /\ pc = "fill"
    /\ Len(selected_pokemon) < _n_pokemon
    /\ \E new_pokemon \in DOMAIN pokedex :
          selected_pokemon' =
              IF new_pokemon \notin Range(selected_pokemon)
              THEN Append(selected_pokemon, new_pokemon)
              ELSE selected_pokemon
    /\ UNCHANGED <<page, initial, FILTER, pokedex, user_selected_pokemon, MESSAGES, pc,
                   render, memory, fetched, pending>>

\* random.choice of an empty catalog raises IndexError, which run() does not catch.
RandomSelectEmpty ==
    /\ pc = "fill"
    /\ Len(selected_pokemon) < _n_pokemon
    /\ DOMAIN pokedex = {}
    /\ pc' = "crashed"
    /\ UNCHANGED <<session, render, memory, fetched, pending>>

\* A mutation of Truncate: the list is left as long as it is.
TruncateNot(list, n) == list

\* self.selected_pokemon[: self._n_pokemon()]
Truncate(list, n) == Slice(list, n)

\* The end of _random_select_pokemon, then _print_info and _print_messages, up
\* to the prompt.
RandomSelectDone ==
    /\ pc = "fill"
    /\ ~(Len(selected_pokemon) < _n_pokemon)
    /\ selected_pokemon' = Truncate(selected_pokemon, _n_pokemon)
    /\ user_selected_pokemon' = Min(user_selected_pokemon, _n_pokemon)
    /\ MESSAGES' = <<>>
    /\ pc' = "prompt"
    /\ UNCHANGED <<page, initial, FILTER, pokedex, render, memory, fetched, pending>>

\* What a handler leaves alone besides the session fields it names.
Handled == pc' = "fill" /\ UNCHANGED <<initial, render, memory, fetched, pending>>

_help ==
    /\ AtPrompt
    /\ _add_message("Help")
    /\ Handled
    /\ UNCHANGED <<page, FILTER, pokedex, selected_pokemon, user_selected_pokemon>>

_quit ==
    /\ AtPrompt
    /\ pc' = "quit"
    /\ UNCHANGED <<session, render, memory, fetched, pending>>

InvalidCommand ==
    /\ AtPrompt
    /\ _add_message("Invalid command. Please try again.")
    /\ Handled
    /\ UNCHANGED <<page, FILTER, pokedex, selected_pokemon, user_selected_pokemon>>

_color ==
    /\ AtPrompt
    /\ page' = [page EXCEPT !.COLOR = ~page.COLOR]
    /\ Handled
    /\ UNCHANGED <<FILTER, pokedex, selected_pokemon, user_selected_pokemon, MESSAGES>>

_crop ==
    /\ AtPrompt
    /\ page' = [page EXCEPT !.CROP = ~page.CROP]
    /\ Handled
    /\ UNCHANGED <<FILTER, pokedex, selected_pokemon, user_selected_pokemon, MESSAGES>>

\* reset_selection
_clear ==
    /\ AtPrompt
    /\ selected_pokemon' = <<>>
    /\ user_selected_pokemon' = 0
    /\ Handled
    /\ UNCHANGED <<page, FILTER, pokedex, MESSAGES>>

\* A mutation of _reset: the built-in defaults instead of the start values.
ResetToDefaults ==
    /\ AtPrompt
    /\ page' = Config
    /\ Handled
    /\ UNCHANGED <<FILTER, pokedex, selected_pokemon, user_selected_pokemon, MESSAGES>>

\* reset_page
_reset ==
    /\ AtPrompt
    /\ page' = initial
    /\ Handled
    /\ UNCHANGED <<FILTER, pokedex, selected_pokemon, user_selected_pokemon, MESSAGES>>

\* What the user types after a command name (already stripped of outer blanks).
PageWidthInputs   == { <<"2","1","0">>, <<"w">> }
PageHeightInputs  == { <<"2","9","7">>, <<>> }
OuterMarginInputs == { <<"7",".","5">>, <<"1","0","m","m">> }
InnerMarginInputs == { <<"9","9">>, <<"2",",","5">> }
FontSizeInputs    == { <<"-","1">>, <<"b","i","g">> }
RowsInputs        == { <<"1">>, <<"2">>, <<"0">>, <<"-","1">>, <<"1",".","5">>, <<"x">> }
ColumnsInputs     == { <<"1">>, <<"2">>, <<"0">>, <<"-","1">>, <<"t","w","o">>, <<>> }
GridInputs        == { <<"2"," ","1">>, <<"1"," ","2">>, <<"2"," ","x">>, <<"x"," ","2">>,
                       <<"2">>, <<"1"," ","2"," ","2">>, <<"2"," "," ","1">>, <<"2","x","1">> }
PageSizeInputs    == { <<"A","4"," ","P","o","r","t","r","a","i","t">>,
                       <<"A","4"," ","L","a","n","d","s","c","a","p","e">>,
                       <<"B","5"," ","P","o","r","t","r","a","i","t">>,
                       <<"A","4">> }
TypeFilterInputs  == { <<>>, <<"P","s","y","c","h","i","c">>, <<"p","o","i","s","o","n">>,
                       <<"S","h","a","d","o","w">>, <<"f","i","r","e">> }
PickInputs        == { <<"M","e","w">>, <<"j","y","n","x">>, <<"8","9">>, <<"1","5","1">>,
                       <<"7">>, <<"m","e","w","t","w","o">> }

\* self.X = float(text), or the message on ValueError.
SetFloat(field, text, message) ==
    IF FloatParses(text)
    THEN page' = [page EXCEPT ![field] = FloatValue(text)] /\ UNCHANGED MESSAGES
    ELSE _add_message(message) /\ UNCHANGED page

\* A mutation of SetInt: an unparseable text sets the field to 0.
SetIntZero(field, text, message) ==
    IF IntParses(text)
    THEN page' = [page EXCEPT ![field] = IntValue(text)] /\ UNCHANGED MESSAGES
    ELSE page' = [page EXCEPT ![field] = 0] /\ _add_message(message)

\* self.X = int(text), or the message on ValueError.
SetInt(field, text, message) ==
    IF IntParses(text)
    THEN page' = [page EXCEPT ![field] = IntValue(text)] /\ UNCHANGED MESSAGES
    ELSE _add_message(message) /\ UNCHANGED page

_set_page_width ==
    /\ AtPrompt
    /\ \E page_width \in PageWidthInputs :
          SetFloat("PAGE_WIDTH_MM", page_width, "Invalid page width. Please try again.")
    /\ Handled
    /\ UNCHANGED <<FILTER, pokedex, selected_pokemon, user_selected_pokemon>>

_set_page_height ==
    /\ AtPrompt
    /\ \E page_height \in PageHeightInputs :
          SetFloat("PAGE_HEIGHT_MM", page_height, "Invalid page height. Please try again.")
    /\ Handled
    /\ UNCHANGED <<FILTER, pokedex, selected_pokemon, user_selected_pokemon>>

_set_outer_margin ==
    /\ AtPrompt
    /\ \E outer_margin \in OuterMarginInputs :
          SetFloat("OUTER_MARGIN_MM", outer_margin, "Invalid outer margin. Please try again.")
    /\ Handled
    /\ UNCHANGED <<FILTER, pokedex, selected_pokemon, user_selected_pokemon>>

_set_inner_margin ==
    /\ AtPrompt
    /\ \E inner_margin \in InnerMarginInputs :
          SetFloat("INNER_MARGIN_MM", inner_margin, "Invalid inner margin. Please try again.")
    /\ Handled
    /\ UNCHANGED <<FILTER, pokedex, selected_pokemon, user_selected_pokemon>>

_set_font_size ==
    /\ AtPrompt
    /\ \E font_size \in FontSizeInputs :
          SetFloat("FONT_SIZE_MM", font_size, "Invalid font size. Please try again.")
    /\ Handled
    /\ UNCHANGED <<FILTER, pokedex, selected_pokemon, user_selected_pokemon>>

_set_rows ==
    /\ AtPrompt
    /\ \E rows \in RowsInputs :
          SetInt("ROWS", rows, "Invalid number of rows. Please try again.")
    /\ Handled
    /\ UNCHANGED <<FILTER, pokedex, selected_pokemon, user_selected_pokemon>>

_set_columns ==
    /\ AtPrompt
    /\ \E columns \in ColumnsInputs :
          SetInt("COLUMNS", columns, "Invalid number of columns. Please try again.")
    /\ Handled
    /\ UNCHANGED <<FILTER, pokedex, selected_pokemon, user_selected_pokemon>>

\* page_orientation
_rotate_page ==
    /\ AtPrompt
    /\ page' = [page EXCEPT !.PAGE_WIDTH_MM = page.PAGE_HEIGHT_MM,
                            !.PAGE_HEIGHT_MM = page.PAGE_WIDTH_MM]
    /\ Handled
    /\ UNCHANGED <<FILTER, pokedex, selected_pokemon, user_selected_pokemon, MESSAGES>>

\* grid_orientation
_rotate_grid ==
    /\ AtPrompt
    /\ page' = [page EXCEPT !.ROWS = page.COLUMNS, !.COLUMNS = page.ROWS]
    /\ Handled
    /\ UNCHANGED <<FILTER, pokedex, selected_pokemon, user_selected_pokemon, MESSAGES>>

\* page_size "<name> <orientation>": KeyError for a name not in the table.
_set_page_size ==
    /\ AtPrompt
    /\ \E page_size \in PageSizeInputs :
          LET fields == Split(page_size, <<>>)
              orientation == Join(fields[Len(fields)])
              words == SubSeq(fields, 1, Len(fields) - 1)
              page_size_name ==
                  IF words = <<>> THEN ""
                  ELSE Join(Head(words)) \o
                       Join([k \in 1..(Len(words) - 1) |-> " " \o Join(words[k + 1])])
          IN  IF page_size_name \in DOMAIN STANDARD_PAGE_SIZES_MM
              THEN LET size == STANDARD_PAGE_SIZES_MM[page_size_name]
                       landscape == orientation = "Landscape"
                   IN  /\ page' = [page EXCEPT
                                     !.PAGE_WIDTH_MM = IF landscape THEN size[2] ELSE size[1],
                                     !.PAGE_HEIGHT_MM = IF landscape THEN size[1] ELSE size[2]]
                       /\ UNCHANGED MESSAGES
              ELSE _add_message("Invalid page size. Please try again.") /\ UNCHANGED page
    /\ Handled
    /\ UNCHANGED <<FILTER, pokedex, selected_pokemon, user_selected_pokemon>>

\* types: one message per type.
_list_types ==
    /\ AtPrompt
    /\ MESSAGES' = MESSAGES \o TypeNames
    /\ Handled
    /\ UNCHANGED <<page, FILTER, pokedex, selected_pokemon, user_selected_pokemon>>

\* A mutation of SetGrid: the columns are stored as soon as they parse.
SetGridEager(grid) ==
    LET fields == Split(grid, <<>>)
    IN  IF Len(fields) = 2 /\ IntParses(fields[1]) /\ IntParses(fields[2])
        THEN /\ page' = [page EXCEPT !.COLUMNS = IntValue(fields[1]),
                                     !.ROWS = IntValue(fields[2])]
             /\ UNCHANGED MESSAGES
        ELSE /\ page' = IF IntParses(fields[1])
                        THEN [page EXCEPT !.COLUMNS = IntValue(fields[1])]
                        ELSE page
             /\ _add_message("Invalid grid. Please try again.")

\* columns, rows = map(int, grid.split(" ")): ValueError unless there are
\* exactly two fields and both parse; nothing is stored before both are read.
SetGrid(grid) ==
    LET fields == Split(grid, <<>>)
    IN  IF Len(fields) = 2 /\ IntParses(fields[1]) /\ IntParses(fields[2])
        THEN /\ page' = [page EXCEPT !.COLUMNS = IntValue(fields[1]),
                                     !.ROWS = IntValue(fields[2])]
             /\ UNCHANGED MESSAGES
        ELSE _add_message("Invalid grid. Please try again.") /\ UNCHANGED page

_set_grid ==
    /\ AtPrompt
    /\ \E grid \in GridInputs : SetGrid(grid)
    /\ Handled
    /\ UNCHANGED <<FILTER, pokedex, selected_pokemon, user_selected_pokemon>>

\* A mutation of HasType: every id passes for carrying the type.
HasTypeAlways(type_filter, pokemon_id) == TRUE

\* type_filter.lower() in pokemon_id2types(pokemon_id)
HasType(type_filter, pokemon_id) ==
    Join(Lower(type_filter)) \in Range(pokemon_id2types(pokemon_id))

\* A mutation of TooFew: the size of the type is not looked at.
TooFewNever(type_filter) == FALSE

\* len(get_types()[type_filter.lower()]) < self._n_pokemon()
TooFew(type_filter) == Len(get_types[Join(Lower(type_filter))]) < _n_pokemon

\* type_filter: FILTER is cleared first, whatever follows.
\* f"Not enough Pokémon with type: {type_filter}. Please try again."
NotEnough(type_filter) ==
    "Not enough Pokémon with type: " \o Join(type_filter) \o ". Please try again."

_type_filter ==
    /\ AtPrompt
    /\ \E type_filter \in TypeFilterInputs :
          IF type_filter = <<>>
          THEN /\ FILTER' = None
               /\ pokedex' = get_pokedex(None)
               /\ UNCHANGED <<selected_pokemon, user_selected_pokemon, MESSAGES>>
          ELSE IF Join(Lower(type_filter)) \notin DOMAIN get_types
          THEN /\ FILTER' = None
               /\ _add_message("Invalid type. Please try again.")
               /\ UNCHANGED <<pokedex, selected_pokemon, user_selected_pokemon>>
          ELSE IF TooFew(type_filter)
          THEN /\ FILTER' = None
               /\ _add_message(NotEnough(type_filter))
               /\ UNCHANGED <<pokedex, selected_pokemon, user_selected_pokemon>>
          ELSE /\ FILTER' = type_filter
               /\ user_selected_pokemon' = user_selected_pokemon -
                     Cardinality({i \in 1..user_selected_pokemon :
                                     ~HasType(type_filter, selected_pokemon[i])})
               /\ selected_pokemon' =
                     SelectSeq(selected_pokemon, LAMBDA id : HasType(type_filter, id))
               /\ pokedex' = get_pokedex(type_filter)
               /\ UNCHANGED MESSAGES
    /\ Handled
    /\ UNCHANGED page

\* The id a typed text stands for: by name, else as a number, else nothing.
TypedId(user_input) ==
    IF pokemon_name2id(user_input) # {} THEN pokemon_name2id(user_input)
    ELSE IF IntParses(user_input) THEN {IntValue(user_input)}
    ELSE {}

\* A text that is no command: a pick by name or id.  An id of the current
\* catalog is never falsy, so "Invalid input" cannot follow "not found".
Pick ==
    /\ AtPrompt
    /\ \E user_input \in PickInputs :
          LET pokemon_id == TypedId(user_input)
          IN  IF pokemon_id \cap DOMAIN pokedex = {}
              THEN /\ _add_message("Pokémon not found. Please try again.")
                   /\ UNCHANGED <<selected_pokemon, user_selected_pokemon>>
              ELSE IF pokemon_id \cap Range(selected_pokemon) # {}
              THEN /\ _add_message("Pokémon already selected. Please try again.")
                   /\ UNCHANGED <<selected_pokemon, user_selected_pokemon>>
              ELSE /\ selected_pokemon' = <<CHOOSE id \in pokemon_id : TRUE>> \o selected_pokemon
                   /\ user_selected_pokemon' = user_selected_pokemon + 1
                   /\ UNCHANGED MESSAGES
    /\ Handled
    /\ UNCHANGED <<page, FILTER, pokedex>>

----------------------------------------------------------------------------
(* Pre-warm and sheet composition (utils.py), as called by the session *)

MaxAttempts == 4

MaxRequests == 7

NoImage == [size |-> <<0, 0>>, cells |-> <<>>, lines |-> <<>>]

\* The arguments _generate_coloring_page passes on; dpi is left at its default.
GenerateArgs(caller) ==
    [page_width_mm |-> page.PAGE_WIDTH_MM, page_height_mm |-> page.PAGE_HEIGHT_MM,
     outer_margin_mm |-> page.OUTER_MARGIN_MM, inner_margin_mm |-> page.INNER_MARGIN_MM,
     font_size_mm |-> page.FONT_SIZE_MM, dpi |-> DPI,
     rows |-> page.ROWS, columns |-> page.COLUMNS,
     include_list |-> selected_pokemon, exclude_list |-> <<>>,
     color |-> page.COLOR, crop |-> page.CROP, caller |-> caller]

\* An empty prompt (preview) or the write command: _generate_coloring_page
\* starts with parallel_cache_pokeapi_calls over the selection.
Generate ==
    /\ AtPrompt
    /\ \E caller \in {"preview", "write"} : call' = GenerateArgs(caller)
    /\ pending' = {<<"image", id>> : id \in Range(selected_pokemon)}
                    \cup {<<"name", id>> : id \in Range(selected_pokemon)}
    /\ pc' = "prewarm"
    /\ UNCHANGED <<session, include_list, exclude_list, cell, output_image, attempts,
                   attempt_id, memory, fetched, resized>>

\* get_image_by_id through memory.cache: the stored result without a request,
\* else one run of the body.
ImageResults(pokemon_id) ==
    IF Memoized(memory.image, pokemon_id)
    THEN {[result |-> memory.image[pokemon_id], requests |-> 0]}
    ELSE FetchOutcomes

\* A mutation of StoreImage: a None result is not kept.
StoreImageUnlessNone(store, pokemon_id, result) ==
    IF result = "None" THEN store ELSE [store EXCEPT ![pokemon_id] = result]

\* memory.cache keeps whatever the body returned, None included.
StoreImage(store, pokemon_id, result) == [store EXCEPT ![pokemon_id] = result]

Requested(pokemon_id, o) ==
    [fetched EXCEPT ![pokemon_id] = Min(@ + o.requests, MaxRequests)]

\* get_pokemon_print_name through memory.cache: a stored name, or one run of
\* the body, which returns a name (and stores it) or raises what httpx raises.
NameResults(pokemon_id) ==
    IF pokemon_id \in memory.name THEN {"stored"} ELSE {"returned", "raised"}

\* One task of the pre-warm batch, on a worker thread.
PrewarmTask ==
    /\ pc = "prewarm"
    /\ \E task \in pending :
          /\ pending' = pending \ {task}
          /\ IF task[1] = "image"
             THEN \E o \in ImageResults(task[2]) :
                     /\ memory' = [memory EXCEPT !.image = StoreImage(@, task[2], o.result)]
                     /\ fetched' = Requested(task[2], o)
                     /\ pc' = pc
             ELSE \E named \in NameResults(task[2]) :
                     /\ fetched' = fetched
                     /\ IF named = "raised"
                        THEN pc' = "crashed" /\ memory' = memory
                        ELSE /\ pc' = pc
                             /\ memory' = [memory EXCEPT !.name = @ \cup {task[2]}]
    /\ UNCHANGED <<session, render>>

\* Parallel(...) returns when every task has: generate_pokemon_coloring_page is called.
PrewarmJoin ==
    /\ pc = "prewarm"
    /\ pending = {}
    /\ pc' = "generate"
    /\ UNCHANGED <<session, render, memory, fetched, pending>>

PAGE_WIDTH(c)   == Mm2Px(c.page_width_mm, c.dpi)
PAGE_HEIGHT(c)  == Mm2Px(c.page_height_mm, c.dpi)
OUTER_MARGIN(c) == Mm2Px(c.outer_margin_mm, c.dpi)
INNER_MARGIN(c) == Mm2Px(c.inner_margin_mm, c.dpi)
FONT_SIZE(c)    == Mm2Px(c.font_size_mm, c.dpi)

IMAGE_BOX_WIDTH(c)  == FloorDiv(PAGE_WIDTH(c) - 2 * OUTER_MARGIN(c), c.columns)
IMAGE_BOX_HEIGHT(c) == FloorDiv(PAGE_HEIGHT(c) - 2 * OUTER_MARGIN(c), c.rows)

\* A mutation of MAX_IMAGE_WIDTH: the inner margin is not taken off the box.
MaxImageWidthBox(c) == IMAGE_BOX_WIDTH(c)

MAX_IMAGE_WIDTH(c)  == IMAGE_BOX_WIDTH(c) - 2 * INNER_MARGIN(c)
MAX_IMAGE_HEIGHT(c) == IMAGE_BOX_HEIGHT(c) - 2 * INNER_MARGIN(c)

\* The cells of range(rows) x range(columns).
Cells(c) == Max(c.rows, 0) * Max(c.columns, 0)

\* generate_pokemon_coloring_page up to its loops: Image.new raises on a
\* negative size, the box computation on zero rows or columns.
ComposeBegin ==
    /\ pc = "generate"
    /\ IF PAGE_WIDTH(call) < 0 \/ PAGE_HEIGHT(call) < 0 \/ call.rows = 0 \/ call.columns = 0
       THEN /\ pc' = "crashed"
            /\ UNCHANGED <<include_list, exclude_list, output_image>>
       ELSE /\ pc' = "compose"
            /\ include_list' = call.include_list
            /\ exclude_list' = call.exclude_list
            /\ output_image' = [NoImage EXCEPT !.size = <<PAGE_WIDTH(call), PAGE_HEIGHT(call)>>]
    /\ cell' = 0
    /\ attempts' = 0
    /\ attempt_id' = 0
    /\ UNCHANGED <<session, call, memory, fetched, pending, resized>>

\* A mutation of Candidates: the explicit list is read from its end.
CandidatesFromEnd(list) ==
    IF Len(list) > 0 THEN {list[Len(list)]} ELSE DOMAIN get_pokedex(None)

\* The id an iteration tries: the head of the explicit list while it has
\* entries, else random.choice over the whole, unfiltered catalog.
Candidates(list) ==
    IF Len(list) > 0 THEN {list[1]} ELSE DOMAIN get_pokedex(None)

\* A mutation of AlreadyUsed: the exclude list is not consulted.
AlreadyUsedNever(list, pokemon_id) == FALSE

\* pokemon_id in exclude_list
AlreadyUsed(list, pokemon_id) == pokemon_id \in Range(list)

\* A mutation of Drop: the list is left as it is.
DropNot(list, pokemon_id) == list

\* if pokemon_id in include_list: include_list.remove(pokemon_id)
Drop(list, pokemon_id) == Remove(list, pokemon_id)

\* The paste of a transformed image into cell number k.
Pasted(c, k, coloring_image) ==
    LET i == k \div c.columns
        j == k % c.columns
        x == j * IMAGE_BOX_WIDTH(c) + OUTER_MARGIN(c)
        y == i * IMAGE_BOX_HEIGHT(c) + OUTER_MARGIN(c)
        dx == FloorDiv(IMAGE_BOX_WIDTH(c) - coloring_image.width, 2)
        dy == FloorDiv(IMAGE_BOX_HEIGHT(c) - coloring_image.height, 2)
    IN  [pokemon_id |-> coloring_image.pokemon_id, i |-> i, j |-> j,
         x |-> x + dx, y |-> y + dy,
         width |-> coloring_image.width, height |-> coloring_image.height,
         mode |-> coloring_image.mode,
         text |-> <<x + INNER_MARGIN(c), y + INNER_MARGIN(c)>>]

\* One iteration of the while True loop of a cell; on break, the paste and the
\* label of the cell, whose display-name lookup is outside the try.
ComposeAttempt ==
    /\ pc = "compose"
    /\ cell < Cells(call)
    /\ \E pokemon_id \in Candidates(include_list) :
       \E o \in ImageResults(pokemon_id) :
          LET images == create_coloring_image(o.result, pokemon_id,
                            MAX_IMAGE_WIDTH(call), MAX_IMAGE_HEIGHT(call),
                            call.crop, call.color)
              stored == StoreImage(memory.image, pokemon_id, o.result)
          IN  /\ attempt_id' = pokemon_id
              /\ fetched' = Requested(pokemon_id, o)
              /\ include_list' = Drop(include_list, pokemon_id)
              /\ IF images = {} \/ AlreadyUsed(exclude_list, pokemon_id)
                 THEN /\ attempts' = Min(attempts + 1, MaxAttempts)
                      /\ memory' = [memory EXCEPT !.image = stored]
                      /\ UNCHANGED <<exclude_list, cell, output_image, pc>>
                 ELSE \E coloring_image \in images :
                      \E named \in NameResults(pokemon_id) :
                         /\ exclude_list' = Append(exclude_list, pokemon_id)
                         /\ IF named = "raised"
                            THEN /\ pc' = "crashed"
                                 /\ memory' = [memory EXCEPT !.image = stored]
                                 /\ UNCHANGED <<cell, output_image, attempts>>
                            ELSE /\ pc' = pc
                                 /\ memory' = [image |-> stored,
                                               name |-> memory.name \cup {pokemon_id}]
                                 /\ output_image' = [output_image EXCEPT !.cells =
                                        Append(@, Pasted(call, cell, coloring_image))]
                                 /\ cell' = cell + 1
                                 /\ attempts' = 0
    /\ UNCHANGED <<session, call, pending, resized>>

\* A mutation of HorizontalLines: range(rows) instead of range(rows - 1).
HorizontalLinesAll(c) ==
    [i \in 1..Max(c.rows, 0) |->
        <<OUTER_MARGIN(c), IMAGE_BOX_HEIGHT(c) * i + OUTER_MARGIN(c),
          PAGE_WIDTH(c) - OUTER_MARGIN(c), IMAGE_BOX_HEIGHT(c) * i + OUTER_MARGIN(c)>>]

\* for i in range(rows - 1): the line (x0, y0, x1, y1) under row i.
HorizontalLines(c) ==
    [i \in 1..Max(c.rows - 1, 0) |->
        <<OUTER_MARGIN(c), IMAGE_BOX_HEIGHT(c) * i + OUTER_MARGIN(c),
          PAGE_WIDTH(c) - OUTER_MARGIN(c), IMAGE_BOX_HEIGHT(c) * i + OUTER_MARGIN(c)>>]

\* for i in range(columns - 1): the line (x0, y0, x1, y1) right of column i.
VerticalLines(c) ==
    [i \in 1..Max(c.columns - 1, 0) |->
        <<IMAGE_BOX_WIDTH(c) * i + OUTER_MARGIN(c), OUTER_MARGIN(c),
          IMAGE_BOX_WIDTH(c) * i + OUTER_MARGIN(c), PAGE_HEIGHT(c) - OUTER_MARGIN(c)>>]

\* After the last cell: the separator lines, and the return.
ComposeReturn ==
    /\ pc = "compose"
    /\ cell = Cells(call)
    /\ output_image' = [output_image EXCEPT !.lines =
                           HorizontalLines(call) \o VerticalLines(call)]
    /\ pc' = "returned"
    /\ UNCHANGED <<session, call, include_list, exclude_list, cell, attempts, attempt_id,
                   memory, fetched, pending, resized>>

\* A mutation of Generated: the render worked on the session's own list, which
\* comes back without the ids the render consumed.
GeneratedOnSessionList ==
    /\ pc = "returned"
    /\ call.caller \in {"preview", "write"}
    /\ \/ /\ _add_message(IF call.caller = "preview" THEN "Coloring page generated."
                                                     ELSE "Coloring page saved")
          /\ pc' = "fill"
       \/ /\ call.caller = "write"
          /\ pc' = "crashed"
          /\ UNCHANGED MESSAGES
    /\ selected_pokemon' = include_list
    /\ UNCHANGED <<page, initial, FILTER, pokedex, user_selected_pokemon,
                   render, memory, fetched, pending>>

\* Back in the session: the preview is shown, or the file saved (save raises
\* on a name it cannot write), and a message added.
Generated ==
    /\ pc = "returned"
    /\ call.caller \in {"preview", "write"}
    /\ \/ /\ _add_message(IF call.caller = "preview" THEN "Coloring page generated."
                                                     ELSE "Coloring page saved")
          /\ pc' = "fill"
       \/ /\ call.caller = "write"
          /\ pc' = "crashed"
          /\ UNCHANGED MESSAGES
    /\ UNCHANGED <<page, initial, FILTER, pokedex, selected_pokemon, user_selected_pokemon,
                   render, memory, fetched, pending>>

----------------------------------------------------------------------------
(* Session start: run() with its command-line options *)

\* Option sets the session is started with.
StartOptions ==
    { [Config EXCEPT !.ROWS = 1, !.COLUMNS = 2, !.COLOR = TRUE, !.FONT_SIZE_MM = 30],
      [Config EXCEPT !.ROWS = 2, !.COLUMNS = 1] }

\* --rows 1 --columns 2 --color --font-size 3
OneStart == [Config EXCEPT !.ROWS = 1, !.COLUMNS = 2, !.COLOR = TRUE, !.FONT_SIZE_MM = 30]

\* No img_resize call is looked at on its own.
NoResize == [width |-> 0, height |-> 0, max_width |-> 0, max_height |-> 0,
             outcome |-> "none", size |-> <<0, 0>>]

\* No call of generate_pokemon_coloring_page is under way.
NoCall ==
    [page_width_mm |-> 0, page_height_mm |-> 0, outer_margin_mm |-> 0, inner_margin_mm |-> 0,
     font_size_mm |-> 0, dpi |-> DPI, rows |-> 0, columns |-> 0,
     include_list |-> <<>>, exclude_list |-> <<>>, color |-> FALSE, crop |-> FALSE,
     caller |-> "none"]

\* The joblib store as clear_cache leaves it.
EmptyMemory == [image |-> [id \in Ids |-> "miss"], name |-> {}]

NoRender ==
    /\ call = NoCall
    /\ include_list = <<>>
    /\ exclude_list = <<>>
    /\ cell = 0
    /\ output_image = NoImage
    /\ attempts = 0
    /\ attempt_id = 0
    /\ resized = NoResize

RunStarts(options) ==
    /\ initial = options
    /\ page = options
    /\ MESSAGES = <<>>
    /\ FILTER = None
    /\ selected_pokemon = <<>>
    /\ user_selected_pokemon = 0
    /\ pokedex = get_pokedex(None)
    /\ pc = "fill"
    /\ NoRender
    /\ memory = EmptyMemory
    /\ fetched = [id \in Ids |-> 0]
    /\ pending = {}

Init == \E options \in StartOptions : RunStarts(options)

\* The selection side of the interactive loop.
Next ==
    \/ RandomSelectPick
    \/ RandomSelectEmpty
    \/ RandomSelectDone
    \/ Pick
    \/ _clear
    \/ _set_rows
    \/ _set_columns
    \/ _set_grid
    \/ _rotate_grid
    \/ _type_filter
    \/ _list_types
    \/ _help
    \/ InvalidCommand
    \/ _quit

Spec == Init /\ [][Next]_vars

\* The page side of the interactive loop.
NextPage ==
    \/ RandomSelectPick
    \/ RandomSelectDone
    \/ _set_page_width
    \/ _set_page_height
    \/ _set_outer_margin
    \/ _set_inner_margin
    \/ _set_font_size
    \/ _set_rows
    \/ _set_columns
    \/ _set_grid
    \/ _rotate_page
    \/ _rotate_grid
    \/ _set_page_size
    \/ _color
    \/ _crop
    \/ _reset

InitOne == RunStarts(OneStart)

SpecPage == InitOne /\ [][NextPage]_vars

\* Generating sheets from the session: filter, selection, pre-warm, composition.
NextRender ==
    \/ RandomSelectPick
    \/ RandomSelectDone
    \/ _type_filter
    \/ _set_inner_margin
    \/ Generate
    \/ PrewarmTask
    \/ PrewarmJoin
    \/ ComposeBegin
    \/ ComposeAttempt
    \/ ComposeReturn
    \/ Generated

SpecRender == InitOne /\ [][NextRender]_vars

\* generate_pokemon_coloring_page called on its own, with arguments of the caller's choice.
ComposePages ==
    { [page_width_mm |-> 2970, page_height_mm |-> 2100, outer_margin_mm |-> 100,
       inner_margin_mm |-> 20, font_size_mm |-> 25, color |-> FALSE, crop |-> TRUE],
      [page_width_mm |-> 1480, page_height_mm |-> 2100, outer_margin_mm |-> 50,
       inner_margin_mm |-> 25, font_size_mm |-> 30, color |-> TRUE, crop |-> FALSE],
      [page_width_mm |-> 2159, page_height_mm |-> 2794, outer_margin_mm |-> 100,
       inner_margin_mm |-> 600, font_size_mm |-> 25, color |-> FALSE, crop |-> TRUE] }

ComposeGrids == { <<1, 1>>, <<1, 2>>, <<2, 1>>, <<1, 3>>, <<2, 2>>, <<0, 1>> }

\* Explicit id lists of up to three ids, repeats included.
ComposeLists == UNION {[1..n -> Ids] : n \in 0..3}

InitCompose ==
    /\ \E p \in ComposePages, g \in ComposeGrids, l \in ComposeLists :
          call = [page_width_mm |-> p.page_width_mm, page_height_mm |-> p.page_height_mm,
                  outer_margin_mm |-> p.outer_margin_mm, inner_margin_mm |-> p.inner_margin_mm,
                  font_size_mm |-> p.font_size_mm, dpi |-> DPI, rows |-> g[1], columns |-> g[2],
                  include_list |-> l, exclude_list |-> <<>>, color |-> p.color, crop |-> p.crop,
                  caller |-> "none"]
    /\ pc = "generate"
    /\ include_list = <<>>
    /\ exclude_list = <<>>
    /\ cell = 0
    /\ output_image = NoImage
    /\ attempts = 0
    /\ attempt_id = 0
    /\ resized = NoResize
    /\ memory = EmptyMemory
    /\ fetched = [id \in Ids |-> 0]
    /\ pending = {}
    /\ initial = Config
    /\ page = Config
    /\ MESSAGES = <<>>
    /\ FILTER = None
    /\ selected_pokemon = <<>>
    /\ user_selected_pokemon = 0
    /\ pokedex = get_pokedex(None)

NextCompose ==
    \/ ComposeBegin
    \/ ComposeAttempt
    \/ ComposeReturn

SpecCompose == InitCompose /\ [][NextCompose]_vars

----------------------------------------------------------------------------
(* img_resize on its own: image sizes and boxes of at least 1 pixel a side *)

ResizeImageSides == {1, 2, 3, 11, 96}
ResizeBoxSides   == {1, 2, 15, 200}

InitResize ==
    /\ initial = Config
    /\ page = Config
    /\ MESSAGES = <<>>
    /\ FILTER = None
    /\ selected_pokemon = <<>>
    /\ user_selected_pokemon = 0
    /\ pokedex = get_pokedex(None)
    /\ pc = "resize"
    /\ call = NoCall
    /\ include_list = <<>>
    /\ exclude_list = <<>>
    /\ cell = 0
    /\ output_image = NoImage
    /\ attempts = 0
    /\ attempt_id = 0
    /\ memory = EmptyMemory
    /\ fetched = [id \in Ids |-> 0]
    /\ pending = {}
    /\ \E width \in ResizeImageSides, height \in ResizeImageSides,
          max_width \in ResizeBoxSides, max_height \in ResizeBoxSides :
          resized = [NoResize EXCEPT !.width = width, !.height = height,
                                     !.max_width = max_width, !.max_height = max_height]

\* img_resize(image, max_width, max_height): image.resize((w, h)) raises
\* ValueError for a side below 1.
Resize ==
    /\ resized.outcome = "none"
    /\ \E size \in img_resize(resized.width, resized.height,
                              resized.max_width, resized.max_height) :
          resized' = [resized EXCEPT
                        !.size = size,
                        !.outcome = IF size[1] >= 1 /\ size[2] >= 1 THEN "returned"
                                                                     ELSE "raised"]
    /\ UNCHANGED <<session, pc, call, include_list, exclude_list, cell, output_image,
                   attempts, attempt_id, memory, fetched, pending>>

NextResize == Resize

SpecResize == InitResize /\ [][NextResize]_vars

----------------------------------------------------------------------------
(* Properties of the sheet composition *)

CellIds == [k \in 1..Len(output_image.cells) |-> output_image.cells[k].pokemon_id]

Distinct(s) == \A a, b \in 1..Len(s) : a # b => s[a] # s[b]

\* The ids of a list in the order of their first occurrence.
RECURSIVE Dedup(_)
Dedup(s) ==
    IF s = <<>> THEN <<>>
    ELSE LET d == Dedup(SubSeq(s, 1, Len(s) - 1))
         IN  IF s[Len(s)] \in Range(d) THEN d ELSE Append(d, s[Len(s)])

\* The nearest integer to num / den, num >= 0.
Nearest(num, den) == (2 * num + den) \div (2 * den)

\* An id whose artwork was resolved and can be transformed for this call.
Resolves(pokemon_id) ==
    /\ memory.image[pokemon_id] \in Range(Locations)
    /\ create_coloring_image(memory.image[pokemon_id], pokemon_id, MAX_IMAGE_WIDTH(call),
                             MAX_IMAGE_HEIGHT(call), call.crop, call.color) # {}

SheetCreated == pc \in {"compose", "returned"}

\* C1 as stated: the sheet is round(pageWidthMm * dpi / 25.4) pixels wide and
\* round(pageHeightMm * dpi / 25.4) pixels high, every millimetre value rounded
\* to the nearest integer; 297 x 210 mm at 200 dpi gives 2339 x 1654.
C1_SizeIsRounded ==
    SheetCreated =>
        /\ output_image.size = <<Nearest(call.page_width_mm * call.dpi, 254),
                                 Nearest(call.page_height_mm * call.dpi, 254)>>
        /\ (call.page_width_mm = 2970 /\ call.page_height_mm = 2100 /\ call.dpi = 200)
              => output_image.size = <<2339, 1654>>

\* C1 amended: the sheet is int(pageWidthMm * dpi / 25.4) pixels wide and
\* int(pageHeightMm * dpi / 25.4) pixels high, every millimetre value cut to its
\* integer part (the label of the first cell sits at the cut outer margin plus
\* the cut inner margin); 297 x 210 mm at 200 dpi gives 2338 x 1653.
C1_SizeIsTruncated ==
    SheetCreated =>
        /\ output_image.size = <<(call.page_width_mm * call.dpi) \div 254,
                                 (call.page_height_mm * call.dpi) \div 254>>
        /\ (call.page_width_mm = 2970 /\ call.page_height_mm = 2100 /\ call.dpi = 200)
              => output_image.size = <<2338, 1653>>
        /\ \A k \in 1..Len(output_image.cells) :
              k = 1 => LET margins == (call.outer_margin_mm * call.dpi) \div 254
                                        + (call.inner_margin_mm * call.dpi) \div 254
                       IN  output_image.cells[k].text = <<margins, margins>>

C1_Witness ==
    /\ pc = "returned"
    /\ call.page_width_mm = 2970 /\ call.page_height_mm = 2100 /\ call.dpi = 200
    /\ output_image.size = <<2338, 1653>>
    /\ Len(output_image.cells) = 3

\* C2: within one call no id is rendered in two cells, whatever the include
\* list (repeats included) and whichever ids fail to resolve or transform.
C2_NoIdTwice == Distinct(CellIds)

C2_Witness ==
    /\ pc = "returned"
    /\ Len(output_image.cells) = 3
    /\ Len(call.include_list) = 3
    /\ call.include_list[1] = call.include_list[2]
    /\ \E id \in Ids : memory.image[id] = "sprite"

C4_FailedCellIsRandom ==
    pc = "returned" /\ Distinct(call.include_list) =>
        \A k \in 1..Min(Len(call.include_list), Cells(call)) :
            ( /\ memory.image[call.include_list[k]] = "None"
              /\ \A m \in 1..(k - 1) : Resolves(call.include_list[m]) )
            => CellIds[k] \notin Range(call.include_list)

\* C4 amended: an explicit id whose every source location fails is dropped and
\* never rendered; its cell goes to the next candidate, which is the next id
\* still on the explicit list and a random id only once the list has run out.
\* A sheet that is returned has every cell filled: first the listed ids that
\* resolve, in list order, then ids that are not from the list.
C4_FailedIdIsReplaced ==
    pc = "returned" =>
        LET good == Dedup(SelectSeq(call.include_list, Resolves))
            placed == SubSeq(good, 1, Min(Len(good), Cells(call)))
        IN  /\ Len(output_image.cells) = Cells(call)
            /\ SubSeq(CellIds, 1, Len(placed)) = placed
            /\ \A k \in (Len(placed) + 1)..Len(CellIds) :
                  CellIds[k] \notin Range(call.include_list)
            /\ \A k \in 1..Len(CellIds) : memory.image[CellIds[k]] # "None"

C4_Witness ==
    /\ pc = "returned"
    /\ call.rows = 1 /\ call.columns = 2
    /\ call.include_list = <<89, 151>>
    /\ memory.image[89] = "None"
    /\ CellIds = <<151, 124>>

\* C5: the retry loop of a cell makes a number of attempts bounded by the size
\* of the catalog.
C5_AttemptsBounded == attempts <= Cardinality(Ids)

\* C6: whenever get_image_by_id returns, what it returns (and the store keeps)
\* is an image, never an absent value.
C6_NeverAbsent == \A id \in Ids : memory.image[id] # "None"

----------------------------------------------------------------------------
(* Properties of the artwork store *)

\* C7: an id whose artwork was once resolved is never requested from a source
\* location again, through pre-warm and composition alike, and its stored
\* artwork stays what it is.
C7_NoRefetch ==
    [][\A id \in Ids :
          memory.image[id] \in Range(Locations)
             => fetched'[id] = fetched[id] /\ memory'.image[id] = memory.image[id]]_vars

C7_Witness ==
    /\ pc = "returned"
    /\ call.caller = "preview"
    /\ Len(output_image.cells) = 2
    /\ \A k \in 1..Len(output_image.cells) :
          /\ output_image.cells[k].pokemon_id = selected_pokemon[k]
          /\ memory.image[selected_pokemon[k]] = "official-artwork"
          /\ fetched[selected_pokemon[k]] = 1

----------------------------------------------------------------------------
(* Properties of the session *)

\* C8: at every prompt the selection list holds no id twice and is at most
\* rows * columns long.
C8_SelectionWithinGrid ==
    AtPrompt => /\ Distinct(selected_pokemon)
                /\ Len(selected_pokemon) <= page.ROWS * page.COLUMNS

\* C9: a type_filter command that names a type with fewer ids than
\* rows * columns adds its message and leaves the catalog (and the selection)
\* as it was; a command never scopes the catalog to fewer ids than
\* rows * columns.
C9_TooFewRejected ==
    [][AtPrompt =>
          /\ (\E t \in TypeFilterInputs : MESSAGES' = Append(MESSAGES, NotEnough(t)))
                => /\ pokedex' = pokedex
                   /\ selected_pokemon' = selected_pokemon
                   /\ user_selected_pokemon' = user_selected_pokemon
          /\ pokedex' # pokedex
                => \/ pokedex' = get_pokedex(None)
                   \/ Cardinality(DOMAIN pokedex') >= page.ROWS * page.COLUMNS]_vars

C9_Witness ==
    /\ pc = "fill"
    /\ MESSAGES = <<NotEnough(<<"p", "o", "i", "s", "o", "n">>)>>
    /\ DOMAIN pokedex = {124, 151}
    /\ page.ROWS * page.COLUMNS = 2

InvalidValueMessages ==
    { "Invalid page width. Please try again.", "Invalid page height. Please try again.",
      "Invalid outer margin. Please try again.", "Invalid inner margin. Please try again.",
      "Invalid font size. Please try again.", "Invalid number of rows. Please try again.",
      "Invalid number of columns. Please try again.", "Invalid grid. Please try again." }

\* C10: a page setting given a text that does not parse as its number adds one
\* message and leaves every page setting, the selection list and the catalog
\* as they were (a grid whose second number does not parse changes neither
\* rows nor columns); a command that changes a page setting adds no message.
C10_InvalidValueRejected ==
    [][AtPrompt =>
          /\ Len(MESSAGES') <= Len(MESSAGES) + 1
          /\ (\E m \in InvalidValueMessages : MESSAGES' = Append(MESSAGES, m))
                => /\ page' = page
                   /\ selected_pokemon' = selected_pokemon
                   /\ user_selected_pokemon' = user_selected_pokemon
                   /\ pokedex' = pokedex
          /\ page' # page => MESSAGES' = MESSAGES]_vars

C10_Witness ==
    /\ pc = "fill"
    /\ MESSAGES = <<"Invalid grid. Please try again.">>
    /\ page.COLUMNS = 1 /\ page.ROWS = 2
    /\ page.PAGE_WIDTH_MM = 2100

----------------------------------------------------------------------------
(* Properties of the page settings and of the pre-warm *)

\* C11: the page settings the session holds are valid after any sequence of
\* commands: rows and columns are at least 1 and the page width, page height,
\* outer margin, inner margin and font size are positive, so a composition is
\* never under way with rows or columns below 1.
C11_PageSpecValid ==
    /\ page.ROWS >= 1 /\ page.COLUMNS >= 1
    /\ page.PAGE_WIDTH_MM > 0 /\ page.PAGE_HEIGHT_MM > 0
    /\ page.OUTER_MARGIN_MM > 0 /\ page.INNER_MARGIN_MM > 0 /\ page.FONT_SIZE_MM > 0
    /\ pc \in {"prewarm", "generate", "compose", "returned"}
          => call.rows >= 1 /\ call.columns >= 1

\* C12: a failure inside a pre-warm task never aborts the generate operation:
\* no step of the pre-warm ends the session.
C12_PrewarmNeverAborts == [][pc = "prewarm" => pc' # "crashed"]_vars

----------------------------------------------------------------------------
(* Properties of the catalog lookups *)

\* Names of the catalog as a user may type them.
Spellings ==
    { [text |-> <<"M", "e", "w">>, name |-> "mew"],
      [text |-> <<"m", "e", "w">>, name |-> "mew"],
      [text |-> <<"J", "Y", "N", "X">>, name |-> "jynx"],
      [text |-> <<"j", "y", "n", "x">>, name |-> "jynx"],
      [text |-> <<"M", "u", "K">>, name |-> "muk"] }

\* C13: name and id are inverse on the catalog, whatever its scope: the name
\* of every id of the current catalog, typed in any case, is looked up to that
\* id (the index holds no name twice), and every name of the reverse map leads
\* to an id that carries exactly that name.
C13_NameIdInverse ==
    /\ \A id \in DOMAIN pokedex :
          /\ \E sp \in Spellings : pokemon_id2name(id) = {sp.name}
          /\ \A sp \in Spellings :
                pokemon_id2name(id) = {sp.name} => pokemon_name2id(sp.text) = {id}
          /\ pokemon_id2name(id) = {pokedex[id]}
    /\ \A nm \in DOMAIN pokedex_names : pokemon_id2name(pokedex_names[nm]) = {nm}
    /\ \A sp \in Spellings : \A id \in pokemon_name2id(sp.text) :
          pokemon_id2name(id) = {sp.name}

C13_Witness ==
    /\ AtPrompt
    /\ FILTER = <<"P", "s", "y", "c", "h", "i", "c">>
    /\ DOMAIN pokedex = {124, 151}
    /\ user_selected_pokemon = 1
    /\ selected_pokemon[1] = 151

\* Ids a user may type that neither the index nor the session's catalog holds.
UnknownIds ==
    {id \in UNION {TypedId(t) : t \in PickInputs} \cup {0} : id \notin Ids \cup DOMAIN pokedex}

\* C14: for an id that is not in the catalog pokemon_id2name returns the empty
\* string and pokemon_id2types the empty collection.
C14_UnknownIdEmpty ==
    \A id \in UnknownIds :
        /\ pokemon_id2name(id) = {""}
        /\ pokemon_id2types(id) = <<>>

UnknownTypes == {t \in TypeFilterInputs : t # <<>> /\ Join(Lower(t)) \notin DOMAIN get_types}

\* C15: get_pokedex yields no catalog for a filter that names no known type
\* (it fails), and for a known type exactly the entries that carry the type,
\* which is what the session holds while a filter is set.
C15_UnknownTypeFails ==
    /\ \A t \in UnknownTypes : DOMAIN get_pokedex(t) \notin SUBSET Ids
    /\ FILTER # None => pokedex = get_pokedex(FILTER)
    /\ \A t \in TypeFilterInputs \ UnknownTypes :
          t # <<>> => /\ DOMAIN get_pokedex(t) = {id \in Ids : HasType(t, id)}
                      /\ \A id \in DOMAIN get_pokedex(t) :
                            get_pokedex(t)[id] = get_pokedex(None)[id]

----------------------------------------------------------------------------
(* Properties of reset_page *)

\* C16: reset_page sets every page setting, color and crop included, to the
\* value the session was started with (which is kept as given, and is not the
\* built-in default) and leaves the selection list, the count of user picks,
\* the type filter and the catalog as they were.
C16_ResetRestoresStart ==
    [][/\ initial' = initial
       /\ _reset => /\ \A field \in DOMAIN page : page'[field] = initial[field]
                    /\ initial = OneStart
                    /\ page' # Config
                    /\ selected_pokemon' = selected_pokemon
                    /\ user_selected_pokemon' = user_selected_pokemon
                    /\ FILTER' = FILTER
                    /\ pokedex' = pokedex]_vars

\* Every kind of setting differs from its start value, and reset_page is the
\* step that brings them all back.
C16_Witness ==
    /\ AtPrompt
    /\ page.COLOR # initial.COLOR /\ page.CROP # initial.CROP
    /\ page.ROWS # initial.ROWS /\ page.COLUMNS # initial.COLUMNS
    /\ page.PAGE_WIDTH_MM # initial.PAGE_WIDTH_MM
    /\ page.PAGE_HEIGHT_MM # initial.PAGE_HEIGHT_MM
    /\ page.OUTER_MARGIN_MM # initial.OUTER_MARGIN_MM
    /\ page.INNER_MARGIN_MM # initial.INNER_MARGIN_MM
    /\ page.FONT_SIZE_MM # initial.FONT_SIZE_MM
    /\ Len(selected_pokemon) > 0
    /\ ENABLED (_reset /\ page' = initial /\ selected_pokemon' = selected_pokemon)

----------------------------------------------------------------------------
(* Properties of the finished sheet *)

\* C17: a sheet that is returned for rows, columns >= 1 has rows * columns
\* cells, and rows - 1 horizontal followed by columns - 1 vertical lines: the
\* k-th at outer margin + k * cell box on its axis, which is where the cells of
\* row (column) k begin, from the outer margin to the page size less the outer
\* margin on the other axis.
C17_CellsAndLines ==
    pc = "returned" /\ call.rows >= 1 /\ call.columns >= 1 =>
        LET om == (call.outer_margin_mm * call.dpi) \div 254
            im == (call.inner_margin_mm * call.dpi) \div 254
            pw == output_image.size[1]
            ph == output_image.size[2]
            bw == (pw - 2 * om) \div call.columns
            bh == (ph - 2 * om) \div call.rows
            lines == output_image.lines
            cells == output_image.cells
        IN  /\ Len(cells) = call.rows * call.columns
            /\ Len(lines) = (call.rows - 1) + (call.columns - 1)
            /\ \A k \in 1..(call.rows - 1) :
                  /\ lines[k] = <<om, om + k * bh, pw - om, om + k * bh>>
                  /\ \A n \in 1..Len(cells) :
                        cells[n].i = k => cells[n].text[2] - im = lines[k][2]
            /\ \A k \in 1..(call.columns - 1) :
                  /\ lines[call.rows - 1 + k] = <<om + k * bw, om, om + k * bw, ph - om>>
                  /\ \A n \in 1..Len(cells) :
                        cells[n].j = k => cells[n].text[1] - im = lines[call.rows - 1 + k][1]

C17_Witness ==
    /\ pc = "returned"
    /\ call.rows = 1 /\ call.columns = 3
    /\ Len(output_image.cells) = 3
    /\ Len(output_image.lines) = 2
    /\ output_image.lines[1][1] < output_image.lines[2][1]
    /\ output_image.lines[2][1] < output_image.size[1]

----------------------------------------------------------------------------
(* Properties of the line-art transform *)

\* The number of channels of a Pillow image mode.
Bands(mode) ==
    CASE mode = "RGBA" -> 4 [] mode = "RGB" -> 3 [] mode = "P" -> 1 [] mode = "L" -> 1

\* The source image behind the n-th cell of the sheet.
CellSource(n) ==
    Artwork(memory.image[output_image.cells[n].pokemon_id], output_image.cells[n].pokemon_id)

\* C18 as stated: with color on, every transformed image has 3 colour
\* channels, whatever the mode of its source.
C18_ThreeChannels ==
    call.color => \A n \in 1..Len(output_image.cells) : Bands(output_image.cells[n].mode) = 3

\* C18 amended: with color on, the grayscale branch never runs and the
\* transformed image keeps the mode of its source: a source with an alpha
\* channel is composited onto white and stays RGBA (4 channels), a palette
\* source stays a palette image (1 channel); with color off the result is
\* grayscale.
C18_KeepsSourceMode ==
    \A n \in 1..Len(output_image.cells) :
        IF call.color
        THEN /\ output_image.cells[n].mode = CellSource(n).mode
             /\ output_image.cells[n].mode # "L"
             /\ CellSource(n).mode = "RGBA" => Bands(output_image.cells[n].mode) = 4
        ELSE output_image.cells[n].mode = "L"

C18_Witness ==
    /\ pc = "returned"
    /\ call.color
    /\ \E n \in 1..Len(output_image.cells) : output_image.cells[n].mode = "RGBA"
    /\ \E n \in 1..Len(output_image.cells) : output_image.cells[n].mode = "P"

Blank(image) == image.bbox = None

\* C19: for a blank image crop makes no difference: with crop on, the
\* transform returns what it returns with crop off and raises when that
\* raises, and a blank image on the sheet has the size the resize gives the
\* uncropped, unpadded image.
C19_BlankNotCropped ==
    pc \in {"compose", "returned"} =>
        /\ \A location \in Range(Locations) : \A id \in Ids :
              Blank(Artwork(location, id)) =>
                 create_coloring_image(location, id, MAX_IMAGE_WIDTH(call),
                                       MAX_IMAGE_HEIGHT(call), TRUE, call.color)
                 = create_coloring_image(location, id, MAX_IMAGE_WIDTH(call),
                                         MAX_IMAGE_HEIGHT(call), FALSE, call.color)
        /\ \A n \in 1..Len(output_image.cells) :
              call.crop /\ Blank(CellSource(n)) =>
                 <<output_image.cells[n].width, output_image.cells[n].height>>
                    \in img_resize(CellSource(n).width, CellSource(n).height,
                                   MAX_IMAGE_WIDTH(call), MAX_IMAGE_HEIGHT(call))

C19_Witness ==
    /\ pc = "returned"
    /\ call.crop
    /\ \E n \in 1..Len(output_image.cells) :
          /\ Blank(CellSource(n))
          /\ output_image.cells[n].width > 2
          /\ output_image.cells[n].height > 2

\* C20: a display-name lookup never aborts a composition: no step of the cell
\* loop ends the session.
C20_NameNeverAborts == [][pc = "compose" => pc' # "crashed"]_vars

----------------------------------------------------------------------------
(* Properties of the user picks *)

\* C21: at every prompt the count of user picks is at least 0 and at most the
\* length of the selection list (whose first entries, that many, are the user
\* picks still on the list).
C21_PickCountWithinList ==
    AtPrompt => /\ 0 <= user_selected_pokemon
                /\ user_selected_pokemon <= Len(selected_pokemon)

----------------------------------------------------------------------------
(* Properties of the retry loop *)

\* An id of the explicit list that was taken off the list and has no artwork:
\* its attempt in this render failed.
FailedExplicit(id) ==
    /\ id \in Range(call.include_list)
    /\ id \notin Range(include_list)
    /\ memory.image[id] = "None"

\* C22: an id of the explicit list whose attempt failed is never attempted
\* again in the same render.
C22_FailedNeverRetried ==
    [][ComposeAttempt => \A id \in Ids : FailedExplicit(id) => attempt_id' # id]_vars

----------------------------------------------------------------------------
(* Properties of img_resize *)

\* C23: for an image and a box of at least 1 pixel a side, img_resize returns a
\* size (w, h) with w <= max_width and h <= max_height, one of them equal to
\* its maximum and the other the truncated proportional value, both at least 1.
C23_AspectFit ==
    resized.outcome # "none" =>
        LET w == resized.size[1]
            h == resized.size[2]
        IN  /\ resized.outcome = "returned"
            /\ w >= 1 /\ h >= 1
            /\ w <= resized.max_width
            /\ h <= resized.max_height
            /\ \/ w = resized.max_width
                  /\ h = (resized.height * resized.max_width) \div resized.width
               \/ h = resized.max_height
                  /\ w = (resized.width * resized.max_height) \div resized.height

----------------------------------------------------------------------------
(* Properties of the cell geometry *)

\* The box (x0, y0, x1, y1) of cell n of the output image, from the page size,
\* the outer margin and the grid of the call.
CellBox(n) ==
    LET om == (call.outer_margin_mm * call.dpi) \div 254
        bw == (output_image.size[1] - 2 * om) \div call.columns
        bh == (output_image.size[2] - 2 * om) \div call.rows
        i  == (n - 1) \div call.columns
        j  == (n - 1) % call.columns
    IN  <<om + j * bw, om + i * bh, om + (j + 1) * bw, om + (i + 1) * bh>>

\* C24: each pasted image is at most the cell box less twice the inner margin,
\* sits at the integer-divided leftover (box - image) div 2 inside its cell,
\* so lies inside its own cell at least the inner margin from each edge; cells
\* do not overlap and every cell lies within the outer margins of the page.
C24_CellGeometry ==
    pc \in {"compose", "returned"} /\ call.rows >= 1 /\ call.columns >= 1 =>
        LET om == (call.outer_margin_mm * call.dpi) \div 254
            im == (call.inner_margin_mm * call.dpi) \div 254
            cells == output_image.cells
        IN  \A n \in 1..Len(cells) :
               LET box == CellBox(n)
                   image == cells[n]
               IN  /\ image.width <= (box[3] - box[1]) - 2 * im
                   /\ image.height <= (box[4] - box[2]) - 2 * im
                   /\ image.x = box[1] + ((box[3] - box[1]) - image.width) \div 2
                   /\ image.y = box[2] + ((box[4] - box[2]) - image.height) \div 2
                   /\ image.x >= box[1] + im
                   /\ image.y >= box[2] + im
                   /\ image.x + image.width <= box[3] - im
                   /\ image.y + image.height <= box[4] - im
                   /\ box[1] >= om /\ box[2] >= om
                   /\ box[3] <= output_image.size[1] - om
                   /\ box[4] <= output_image.size[2] - om
                   /\ \A m \in 1..Len(cells) :
                         m # n => \/ CellBox(m)[3] <= box[1] \/ box[3] <= CellBox(m)[1]
                                  \/ CellBox(m)[4] <= box[2] \/ box[4] <= CellBox(m)[2]

C24_Witness ==
    /\ pc = "returned"
    /\ call.rows = 1 /\ call.columns = 3
    /\ Len(output_image.cells) = 3
    /\ \E n \in 1..3 :
          /\ CellBox(n)[1] > CellBox(1)[1]
          /\ \/ output_image.cells[n].x
                   > CellBox(n)[1] + (call.inner_margin_mm * call.dpi) \div 254
             \/ output_image.cells[n].y
                   > CellBox(n)[2] + (call.inner_margin_mm * call.dpi) \div 254

----------------------------------------------------------------------------
(* Properties of the type filter *)

\* The ids of the catalog that carry the type a filter text names.
Carriers(type_filter) ==
    CASE type_filter = <<"P","s","y","c","h","i","c">> -> {124, 151}
      [] type_filter = <<"p","o","i","s","o","n">>     -> {89}
      [] OTHER                                         -> {}

\* C25: an accepted type_filter T removes from the selection list exactly the
\* ids that do not carry T, keeps the order of the rest, lowers the count of
\* user picks by the number of user picks removed, and scopes the catalog to
\* the ids carrying T; at every prompt while T is active every id of the list
\* carries T and is in the catalog.
C25_FilterScopesSelection ==
    /\ [][_type_filter /\ FILTER' # None =>
            /\ selected_pokemon' =
                  SelectSeq(selected_pokemon, LAMBDA id : id \in Carriers(FILTER'))
            /\ user_selected_pokemon' = user_selected_pokemon -
                  Cardinality({i \in 1..user_selected_pokemon :
                                 selected_pokemon[i] \notin Carriers(FILTER')})
            /\ DOMAIN pokedex' = Carriers(FILTER')]_vars
    /\ [](AtPrompt /\ FILTER # None =>
            /\ Range(selected_pokemon) \subseteq Carriers(FILTER)
            /\ Range(selected_pokemon) \subseteq DOMAIN pokedex)

C25_Witness ==
    /\ pc = "fill"
    /\ FILTER = <<"P","s","y","c","h","i","c">>
    /\ DOMAIN pokedex = {124, 151}
    /\ _n_pokemon = 2
    /\ selected_pokemon = <<151>>
    /\ user_selected_pokemon = 1
    /\ page = initial
    /\ MESSAGES = <<>>

\* C26: FILTER agrees with the scope of the catalog: no filter with the whole
\* catalog, a filter text with the ids carrying its type; so a rejected
\* type_filter leaves FILTER as it was.
C26_FilterMatchesCatalog ==
    /\ FILTER = None => DOMAIN pokedex = Ids
    /\ FILTER # None => DOMAIN pokedex = Carriers(FILTER)

\* C27: whenever _random_select_pokemon runs, the catalog holds at least
\* rows * columns ids, so the fill loop can reach its end.
C27_CatalogCoversGrid ==
    pc = "fill" => Cardinality(DOMAIN pokedex) >= page.ROWS * page.COLUMNS

\* C28: while a type filter is active, every id rendered onto the sheet
\* carries the filtered type, the random fallback ids included.
C28_RenderedCarryFilter ==
    pc \in {"compose", "returned"} /\ FILTER # None =>
        Range(CellIds) \subseteq Carriers(FILTER)

----------------------------------------------------------------------------
(* Properties of the artwork store and of the session across a render *)

\* C29: a failed artwork resolution is not memoized: an attempt on an id whose
\* earlier resolution failed contacts the source locations again.
C29_FailureNotMemoized ==
    [][ComposeAttempt /\ fetched[attempt_id'] > 0
                      /\ memory'.image[attempt_id'] \in {"miss", "None"}
          => fetched'[attempt_id'] > fetched[attempt_id']]_vars

\* C30: generating a sheet leaves the session as it was: from the empty input
\* line to the return into the loop, the selection list, the count of user
\* picks, the page options, the catalog and the filter do not change, whatever
\* the render dropped from its own copy of the list.
C30_RenderKeepsSession ==
    [][(pc \in {"prewarm", "generate", "compose", "returned"} \/ pc' = "prewarm") =>
          /\ selected_pokemon' = selected_pokemon
          /\ user_selected_pokemon' = user_selected_pokemon
          /\ page' = page
          /\ pokedex' = pokedex
          /\ FILTER' = FILTER
          /\ (pc' # "prewarm" => call.include_list = selected_pokemon')]_vars

C30_Witness ==
    /\ pc = "fill"
    /\ call.caller = "preview"
    /\ MESSAGES # <<>>
    /\ MESSAGES[Len(MESSAGES)] = "Coloring page generated."
    /\ Len(selected_pokemon) = 2
    /\ selected_pokemon = call.include_list
    /\ include_list = <<>>
    /\ Len(output_image.cells) = 2
    /\ \E id \in Range(selected_pokemon) :
          memory.image[id] = "None" /\ id \notin Range(CellIds)

====
